---- MODULE Spec2Model ----
(***************************************************************************)
(* Statistical disclosure-control engine: re-identification risk            *)
(* (server/risk-utils.ts) and the anonymization operations                   *)
(* (server/privacy-utils.ts).                                                *)
(*                                                                           *)
(* A record is a function from column names to JavaScript values, a table   *)
(* a sequence of records.  A JavaScript string is a sequence of characters, *)
(* so that String(), join() and template literals are modelled by what they *)
(* do.  A JavaScript number that the code computes by division is an exact  *)
(* rational (or NaN); IEEE rounding of the last bit is not modelled.         *)
(***************************************************************************)
EXTENDS Integers, Sequences, FiniteSets

VARIABLES
  data,               \* the table handed to the operation (dataset.data)
  quasiIdentifiers,   \* the quasi-identifier column list
  pc,                 \* "idle", or "kanon" inside applyKAnonymityEnhanced's pass
  result,             \* what the last completed operation returned
  kValue,             \* applyKAnonymityEnhanced: parameter
  suppressionLimit,   \* applyKAnonymityEnhanced: parameter, a fraction <<p, q>>
  groups,             \* applyKAnonymityEnhanced: the Map's values, first-seen order
  nextGroup,          \* applyKAnonymityEnhanced: position of groups.forEach
  processedData,      \* applyKAnonymityEnhanced: local
  currentSuppressed,  \* applyKAnonymityEnhanced: local
  groupSizes,         \* applyKAnonymityEnhanced: local
  origin,             \* history: per output record, the input row it is a copy of
  decisions,          \* history: per processed class, what the pass did with it
  second,             \* a second invocation: its position, arguments, locals, result
  operations,         \* storage: the privacy operations stored so far
  response            \* what the route handler has answered, NoResponse before

vars == <<data, quasiIdentifiers, pc, result, kValue, suppressionLimit, groups,
          nextGroup, processedData, currentSuppressed, groupSizes, origin, decisions,
          second, operations, response>>

kvars == <<kValue, suppressionLimit, groups, nextGroup, processedData,
           currentSuppressed, groupSizes, origin, decisions>>

(***************************************************************************)
(* Bounds of the model.                                                      *)
(***************************************************************************)
MaxRows == 3        \* longest table drawn from Rows
MaxBlock == 16      \* longest run of one repeated record in a block table
MaxK == 3           \* largest kValue / kThreshold / lValue tried

(***************************************************************************)
(* JavaScript values and strings.                                            *)
(***************************************************************************)
Undefined == [t |-> "undefined", n |-> 0, s |-> <<>>]
Num(i) == [t |-> "number", n |-> i, s |-> <<>>]
Str(cs) == [t |-> "string", n |-> 0, s |-> cs]

Digit(d) == <<"0", "1", "2", "3", "4", "5", "6", "7", "8", "9">>[d + 1]

RECURSIVE NatStr(_)
NatStr(n) == IF n < 10 THEN <<Digit(n)>> ELSE NatStr(n \div 10) \o <<Digit(n % 10)>>

\* String(n) of an integer-valued number
IntStr(n) == IF n < 0 THEN <<"-">> \o NatStr(0 - n) ELSE NatStr(n)

\* String(v)
JsString(v) ==
  CASE v.t = "number" -> IntStr(v.n)
    [] v.t = "string" -> v.s
    [] OTHER -> <<"u", "n", "d", "e", "f", "i", "n", "e", "d">>

\* !v : undefined, 0 and "" are falsy
Falsy(v) ==
  \/ v.t = "undefined"
  \/ v.t = "number" /\ v.n = 0
  \/ v.t = "string" /\ v.s = <<>>

\* String(v || "")
StringOrEmpty(v) == IF Falsy(v) THEN <<>> ELSE JsString(v)

\* the conversion Array.prototype.join applies to an element
JoinElement(v) == IF v.t = "undefined" THEN <<>> ELSE JsString(v)

\* parts.join("|")
RECURSIVE Join(_)
Join(parts) ==
  IF parts = <<>> THEN <<>>
  ELSE IF Len(parts) = 1 THEN parts[1]
  ELSE parts[1] \o <<"|">> \o Join(Tail(parts))

(***************************************************************************)
(* Inputs: records, tables, quasi-identifier lists.                          *)
(***************************************************************************)
Columns == {"age", "zip", "disease"}

Row(a, z, d) == [age |-> a, zip |-> z, disease |-> d]

Rows ==
  { Row(Num(25), Str(<<"a">>), Str(<<"x">>)),
    Row(Num(25), Str(<<"a">>), Str(<<"y">>)),
    Row(Num(0), Str(<<"a">>), Num(0)),
    Row(Undefined, Str(<<"a">>), Undefined),
    Row(Str(<<"|">>), Undefined, Str(<<"x">>)),
    Row(Undefined, Str(<<"|">>), Str(<<"x">>)) }

SeqsUpTo(S, n) == UNION { [1..m -> S] : m \in 0..n }

Tables == SeqsUpTo(Rows, MaxRows)

QILists == { <<"age">>, <<"age", "zip">> }

\* row[qi] for each quasi-identifier
Projection(row, qis) == [i \in 1..Len(qis) |-> row[qis[i]]]

(***************************************************************************)
(* Equivalence classes.                                                      *)
(***************************************************************************)
\* risk-utils.ts, l-diversity, t-closeness:
\*   quasiIdentifiers.map((qi) => String(row[qi] || "")).join("|")
RiskKey(row, qis) == Join([i \in 1..Len(qis) |-> StringOrEmpty(row[qis[i]])])

\* applyKAnonymityEnhanced: quasiIdentifiers.map((qi) => row[qi]).join("|")
KAnonKey(row, qis) == Join([i \in 1..Len(qis) |-> JoinElement(row[qis[i]])])

IndexOfKey(classes, key) ==
  IF \E j \in 1..Len(classes) : classes[j].key = key
  THEN CHOOSE j \in 1..Len(classes) : classes[j].key = key
  ELSE 0

\* AddToClass, failing to push a row whose key is already in the Map
AddToClassOnceOnly(classes, key, i) ==
  IF \E j \in 1..Len(classes) : classes[j].key = key
  THEN classes
  ELSE Append(classes, [key |-> key, records |-> <<i>>, size |-> 1])

\* One iteration of data.forEach: the Map keeps first-seen key order; the class
\* holds the row (by position in data) and size = records.length.
AddToClass(classes, key, i) ==
  LET j == IndexOfKey(classes, key) IN
    IF j = 0
    THEN Append(classes, [key |-> key, records |-> <<i>>, size |-> 1])
    ELSE [classes EXCEPT ![j] = [key |-> key,
                                 records |-> Append(@.records, i),
                                 size |-> Len(@.records) + 1]]

\* keys[i] is the key of data[i]; the result is Array.from(ecMap.values())
RECURSIVE BuildClasses(_, _)
BuildClasses(keys, n) ==
  IF n = 0 THEN <<>>
  ELSE AddToClass(BuildClasses(keys, n - 1), keys[n], n)

RiskClasses(d, qis) ==
  BuildClasses([i \in 1..Len(d) |-> RiskKey(d[i], qis)], Len(d))

KAnonGroups(d, qis) ==
  BuildClasses([i \in 1..Len(d) |-> KAnonKey(d[i], qis)], Len(d))

(***************************************************************************)
(* Numbers.  The code's divisions produce non-integers, and the products of *)
(* the denominators (population estimates near 100000) exceed 32 bits, so a *)
(* magnitude is a sequence of base-10000 digits, least significant first,   *)
(* without leading zeros, and a JavaScript number is NaN or a fraction      *)
(* sign * num / den of two magnitudes.                                       *)
(***************************************************************************)
Base == 10000

RECURSIVE BigOfNat(_)
BigOfNat(n) == IF n = 0 THEN <<>> ELSE <<n % Base>> \o BigOfNat(n \div Base)

BigHead(a) == IF a = <<>> THEN 0 ELSE Head(a)
BigTail(a) == IF a = <<>> THEN <<>> ELSE Tail(a)

RECURSIVE BigAddCarry(_, _, _)
BigAddCarry(a, b, c) ==
  IF a = <<>> /\ b = <<>>
  THEN (IF c = 0 THEN <<>> ELSE <<c>>)
  ELSE LET x == BigHead(a) + BigHead(b) + c IN
         <<x % Base>> \o BigAddCarry(BigTail(a), BigTail(b), x \div Base)

BigAdd(a, b) == BigAddCarry(a, b, 0)

RECURSIVE BigTrim(_)
BigTrim(a) ==
  IF a = <<>> THEN <<>>
  ELSE IF a[Len(a)] = 0 THEN BigTrim(SubSeq(a, 1, Len(a) - 1))
  ELSE a

\* a - b for a >= b
RECURSIVE BigSubBorrow(_, _, _)
BigSubBorrow(a, b, c) ==
  IF a = <<>> THEN <<>>
  ELSE LET x == Head(a) - BigHead(b) - c IN
         <<(x + Base) % Base>>
           \o BigSubBorrow(Tail(a), BigTail(b), IF x < 0 THEN 1 ELSE 0)

BigSub(a, b) == BigTrim(BigSubBorrow(a, b, 0))

RECURSIVE BigMulDigit(_, _, _)
BigMulDigit(a, d, c) ==
  IF a = <<>>
  THEN (IF c = 0 THEN <<>> ELSE <<c>>)
  ELSE LET x == Head(a) * d + c IN
         <<x % Base>> \o BigMulDigit(Tail(a), d, x \div Base)

RECURSIVE BigMul(_, _)
BigMul(a, b) ==
  IF a = <<>> \/ b = <<>> THEN <<>>
  ELSE LET rest == BigMul(a, Tail(b)) IN
         BigAdd(BigTrim(BigMulDigit(a, Head(b), 0)),
                IF rest = <<>> THEN <<>> ELSE <<0>> \o rest)

\* -1, 0, 1 as a < b, a = b, a > b
RECURSIVE BigCmp(_, _)
BigCmp(a, b) ==
  IF Len(a) # Len(b) THEN (IF Len(a) < Len(b) THEN 0 - 1 ELSE 1)
  ELSE IF a = <<>> THEN 0
  ELSE IF a[Len(a)] # b[Len(b)] THEN (IF a[Len(a)] < b[Len(b)] THEN 0 - 1 ELSE 1)
  ELSE BigCmp(SubSeq(a, 1, Len(a) - 1), SubSeq(b, 1, Len(b) - 1))

NaN == [nan |-> TRUE, sg |-> 0, num |-> <<>>, den |-> <<1>>]

\* the number sg * num / den; zero has sign 0
Fraction(sg, num, den) ==
  [nan |-> FALSE, sg |-> IF num = <<>> THEN 0 ELSE sg, num |-> num, den |-> den]

Abs(i) == IF i < 0 THEN 0 - i ELSE i
Sign(i) == IF i < 0 THEN 0 - 1 ELSE IF i = 0 THEN 0 ELSE 1

\* the number a / b of two integers, b > 0
Ratio(a, b) == Fraction(Sign(a), BigOfNat(Abs(a)), BigOfNat(b))

Whole(i) == Ratio(i, 1)

IsNaN(x) == x.nan

\* sign of x - y for two numbers that are not NaN
Compare(x, y) ==
  IF x.sg # y.sg THEN (IF x.sg < y.sg THEN 0 - 1 ELSE 1)
  ELSE IF x.sg = 0 THEN 0
  ELSE x.sg * BigCmp(BigMul(x.num, y.den), BigMul(y.num, x.den))

\* x === y, x < y, x <= y, x > y: every comparison with NaN is false
NumEq(x, y) == ~x.nan /\ ~y.nan /\ Compare(x, y) = 0
NumLt(x, y) == ~x.nan /\ ~y.nan /\ Compare(x, y) < 0
NumLe(x, y) == ~x.nan /\ ~y.nan /\ Compare(x, y) <= 0
\* NumGt, true of equal numbers too
NumGtOrEqual(x, y) == ~x.nan /\ ~y.nan /\ Compare(x, y) >= 0
NumGt(x, y) == NumLt(y, x)

\* x + y
NumAdd(x, y) ==
  IF x.nan \/ y.nan THEN NaN
  ELSE LET a == BigMul(x.num, y.den)
           b == BigMul(y.num, x.den)
           d == BigMul(x.den, y.den)
       IN IF x.sg = 0 THEN y
          ELSE IF y.sg = 0 THEN x
          ELSE IF x.sg = y.sg THEN Fraction(x.sg, BigAdd(a, b), d)
          ELSE IF BigCmp(a, b) >= 0 THEN Fraction(x.sg, BigSub(a, b), d)
          ELSE Fraction(y.sg, BigSub(b, a), d)

\* x * y
NumMul(x, y) ==
  IF x.nan \/ y.nan THEN NaN
  ELSE IF x.sg = 0 \/ y.sg = 0 THEN Whole(0)
  ELSE Fraction(x.sg * y.sg, BigMul(x.num, y.num), BigMul(x.den, y.den))

\* x / y; 0 / 0 is NaN.  A non-zero number is never divided by zero here.
NumDiv(x, y) ==
  IF x.nan \/ y.nan \/ y.sg = 0 THEN NaN
  ELSE IF x.sg = 0 THEN Whole(0)
  ELSE Fraction(x.sg * y.sg, BigMul(x.num, y.den), BigMul(x.den, y.num))

\* Math.min(x, y), Math.max(x, y): NaN if either is NaN
NumMin(x, y) == IF x.nan \/ y.nan THEN NaN ELSE IF Compare(x, y) <= 0 THEN x ELSE y
NumMax(x, y) == IF x.nan \/ y.nan THEN NaN ELSE IF Compare(x, y) >= 0 THEN x ELSE y

\* Math.abs(x)
NumAbs(x) == IF x.nan THEN NaN ELSE [x EXCEPT !.sg = Abs(x.sg)]

\* Math.round(a / b) for integers a, b > 0: floor(a / b + 1/2)
RoundDiv(a, b) == (2 * a + b) \div (2 * b)

\* Math.floor(a / b) for integers a, b > 0
FloorDiv(a, b) == a \div b

RECURSIVE SumNum(_)
SumNum(xs) == IF xs = <<>> THEN Whole(0) ELSE NumAdd(SumNum(SubSeq(xs, 1, Len(xs) - 1)), xs[Len(xs)])

RECURSIVE SumInt(_)
SumInt(xs) == IF xs = <<>> THEN 0 ELSE SumInt(SubSeq(xs, 1, Len(xs) - 1)) + xs[Len(xs)]

\* equivalenceClasses.filter((ec) => lo <= ec.size && ec.size <= hi).length
CountSizes(classes, lo, hi) ==
  Cardinality({j \in 1..Len(classes) : lo <= classes[j].size /\ classes[j].size <= hi})

Sizes(classes) == [j \in 1..Len(classes) |-> classes[j].size]

(***************************************************************************)
(* risk-utils.ts                                                             *)
(***************************************************************************)
PopulationMultiplier == 50
MinPopulation == 100000

Zero == Whole(0)
One == Whole(1)

\* equivalenceClasses.reduce((sum, ec) => sum + ec.size, 0)
TotalRecords(classes) == SumInt(Sizes(classes))

\* ProsecutorPerClass with the class size off by one
ProsecutorPerClassOffByOne(classes) ==
  [j \in 1..Len(classes) |-> NumDiv(One, Whole(classes[j].size + 1))]

\* calculateProsecutorRisk: perClass
ProsecutorPerClass(classes) ==
  [j \in 1..Len(classes) |-> NumDiv(One, Whole(classes[j].size))]

\* calculateProsecutorRisk: overall
ProsecutorOverall(classes) ==
  LET perClass == ProsecutorPerClass(classes)
      totalRisk == SumNum([j \in 1..Len(classes) |->
                             NumMul(perClass[j], Whole(classes[j].size))])
      totalRecords == TotalRecords(classes)
      overallRisk == IF totalRecords > 0
                     THEN NumDiv(totalRisk, Whole(totalRecords))
                     ELSE Zero
  IN NumMin(overallRisk, One)

\* Math.max(1, Math.round(sampleProportion * populationSize))
EstimatedPopGroupSize(size, totalRecords, populationSize) ==
  LET r == RoundDiv(size * populationSize, totalRecords) IN
    IF r < 1 THEN 1 ELSE r

\* JournalistClassRisk without the fixed risk of a class of one record
JournalistClassRiskNoUnique(size, totalRecords, populationSize) ==
  NumMin(One, Ratio(size, EstimatedPopGroupSize(size, totalRecords, populationSize)))

\* calculateJournalistRisk: the risk of one class
JournalistClassRisk(size, totalRecords, populationSize) ==
  IF size = 1 THEN Ratio(1, 2)
  ELSE NumMin(One, Ratio(size, EstimatedPopGroupSize(size, totalRecords, populationSize)))

JournalistPerClass(classes, populationSize) ==
  [j \in 1..Len(classes) |->
     JournalistClassRisk(classes[j].size, TotalRecords(classes), populationSize)]

\* (kViolations / totalRecords) * 0.5, capped
ViolationPenalty(classes, cap) ==
  LET kViolations == CountSizes(classes, 0, 1) IN
    NumMin(cap, NumMul(NumDiv(Whole(kViolations), Whole(TotalRecords(classes))),
                       Ratio(1, 2)))

\* size-weighted mean of the per-class risks plus the penalty, capped at 1
WeightedOverall(classes, perClass, penalty) ==
  LET total == SumNum([j \in 1..Len(classes) |->
                         NumMul(perClass[j], Whole(classes[j].size))])
      totalRecords == TotalRecords(classes)
      overallRisk == IF totalRecords > 0
                     THEN NumDiv(total, Whole(totalRecords))
                     ELSE Zero
  IN NumMin(One, NumAdd(overallRisk, penalty))

\* calculateJournalistRisk: overall
JournalistOverall(classes, populationSize) ==
  WeightedOverall(classes, JournalistPerClass(classes, populationSize),
                  ViolationPenalty(classes, Ratio(3, 10)))

\* Math.min(0.4, (5 - ec.size) * 0.1)
TargetingBoost(size) == NumMin(Ratio(4, 10), NumMul(Whole(5 - size), Ratio(1, 10)))

\* calculateMarketerRisk: the risk of one class
MarketerClassRisk(size, totalRecords, populationSize) ==
  IF size = 1 THEN Ratio(6, 10)
  ELSE LET base == Ratio(size, EstimatedPopGroupSize(size, totalRecords, populationSize))
       IN NumMin(One, NumMul(base, NumAdd(One, TargetingBoost(size))))

MarketerPerClass(classes, populationSize) ==
  [j \in 1..Len(classes) |->
     MarketerClassRisk(classes[j].size, TotalRecords(classes), populationSize)]

\* calculateMarketerRisk: overall
MarketerOverall(classes, populationSize) ==
  WeightedOverall(classes, MarketerPerClass(classes, populationSize),
                  ViolationPenalty(classes, Ratio(25, 100)))

\* Math.max(data.length * populationMultiplier, 100000)
EstimatedPopSize(n) ==
  IF n * PopulationMultiplier > MinPopulation
  THEN n * PopulationMultiplier ELSE MinPopulation

\* one recommendation: its text, with the numbers the template literal or the
\* concatenation puts in it
Advice(text, numbers) == [text |-> text, numbers |-> numbers]

\* generateRecommendations(metrics, kThreshold)
GenerateRecommendations(prosecutorRisk, journalistRisk, marketerRisk, classes, kThreshold) ==
  LET uniqueCount == CountSizes(classes, 1, 1)
      totalRecords == TotalRecords(classes)
      smallGroups == CountSizes(classes, 0, kThreshold - 1)
      prosecutor ==
        IF NumGt(prosecutorRisk, Ratio(4, 10))
        THEN << Advice("CRITICAL: High prosecutor attack risk. Too many unique/small records.", <<>>),
                Advice("Action: Increase k-threshold or apply aggressive suppression", <<>>) >>
        ELSE IF NumGt(prosecutorRisk, Ratio(2, 10))
        THEN << Advice("WARNING: Moderate prosecutor attack risk detected.", <<>>),
                Advice("Action: Consider suppressing records with k-anonymity < ", <<kThreshold>>) >>
        ELSE <<>>
      journalist ==
        IF NumGt(journalistRisk, Ratio(3, 10))
        THEN << Advice("Journalist attack risk is elevated. Consider sampling restrictions.", <<>>) >>
        ELSE <<>>
      marketer ==
        IF NumGt(marketerRisk, Ratio(25, 100))
        THEN << Advice("Marketer bulk targeting risk is significant.", <<>>),
                Advice("Action: Apply L-Diversity or T-Closeness to sensitive attributes", <<>>) >>
        ELSE <<>>
      unique ==
        IF uniqueCount * 10 > totalRecords
        THEN << Advice("High ratio of unique records", <<uniqueCount, totalRecords>>),
                Advice("Consider L-Diversity or synthetic data generation", <<>>) >>
        ELSE <<>>
      violations ==
        IF smallGroups > 0
        THEN << Advice("groups violate k-anonymity", <<smallGroups, kThreshold>>) >>
        ELSE <<>>
      recommendations == prosecutor \o journalist \o marketer \o unique \o violations
  IN IF Len(recommendations) = 0
     THEN << Advice("Risk levels are acceptable. Data appears well-protected.", <<>>) >>
     ELSE recommendations

\* RowsAfterRiskMetrics, with the risk score written to the rows of the table
RowsWithRiskScore(d) ==
  [i \in 1..Len(d) |->
     [c \in Columns \cup {"riskScore"} |-> IF c = "riskScore" THEN Num(1) ELSE d[i][c]]]

\* the caller's table after calculateRiskMetrics has run: the rows are pushed
\* to the classes by reference and riskScore is assigned to the class objects;
\* no statement assigns to a row or to data
RowsAfterRiskMetrics(d) == d

\* calculateRiskMetrics(data, quasiIdentifiers, kThreshold)
RiskMetrics(d, qis, kThreshold) ==
  LET classes == RiskClasses(d, qis)
      pop == EstimatedPopSize(Len(d))
      perClass == ProsecutorPerClass(classes)
  IN [ op |-> "calculateRiskMetrics",
       kThreshold |-> kThreshold,
       prosecutorRisk |-> ProsecutorOverall(classes),
       journalistRisk |-> JournalistOverall(classes, pop),
       marketerRisk |-> MarketerOverall(classes, pop),
       marketerPerClass |-> MarketerPerClass(classes, pop),
       equivalenceClasses |->
         [j \in 1..Len(classes) |->
            [key |-> classes[j].key, records |-> classes[j].records,
             size |-> classes[j].size, riskScore |-> perClass[j]]],
       uniqueRecords |-> CountSizes(classes, 1, 1),
       smallGroups |-> CountSizes(classes, 2, kThreshold - 1),
       recommendations |->
         GenerateRecommendations(ProsecutorOverall(classes), JournalistOverall(classes, pop),
                                 MarketerOverall(classes, pop), classes, kThreshold) ]

(***************************************************************************)
(* privacy-utils.ts: applyKAnonymityEnhanced                                 *)
(***************************************************************************)
\* the suppressionLimit values tried, as fractions <<p, q>> = p / q
SuppressionLimits == { <<0, 1>>, <<1, 2>>, <<1, 1>> }

\* MaxSuppressed, one record short of the table
MaxSuppressedOneShort(n, limit) == FloorDiv((n - 1) * limit[1], limit[2])

\* Math.floor(data.length * suppressionLimit)
MaxSuppressed(n, limit) == FloorDiv(n * limit[1], limit[2])

\* GeneralizeValue with the range closed at lower + 9
GeneralizeValueInclusive(val) ==
  IF val.t = "number"
  THEN LET lower == (val.n \div 10) * 10
           upper == lower + 9
       IN Str(IntStr(lower) \o <<"-">> \o IntStr(upper))
  ELSE Str(<<"*">>)

\* the value written to generalized[qi]
GeneralizeValue(val) ==
  IF val.t = "number"
  THEN LET lower == (val.n \div 10) * 10
           upper == lower + 10
       IN Str(IntStr(lower) \o <<"-">> \o IntStr(upper))
  ELSE Str(<<"*">>)

\* quasiIdentifiers.forEach over the first n quasi-identifiers of the copy r
RECURSIVE GeneralizeColumns(_, _, _)
GeneralizeColumns(r, qis, n) ==
  IF n = 0 THEN r
  ELSE LET g == GeneralizeColumns(r, qis, n - 1) IN
         [g EXCEPT ![qis[n]] = GeneralizeValue(g[qis[n]])]

Generalize(r, qis) == GeneralizeColumns(r, qis, Len(qis))

\* KAnonDecision, testing the budget without the size of the class
KAnonDecisionIgnoresSize(size, k, suppressed, maxSuppressed) ==
  IF size >= k THEN "keep"
  ELSE IF suppressed <= maxSuppressed THEN "suppress"
  ELSE "generalize"

\* KAnonDecision, keeping only the classes larger than k
KAnonDecisionStrict(size, k, suppressed, maxSuppressed) ==
  IF size > k THEN "keep"
  ELSE IF suppressed + size <= maxSuppressed THEN "suppress"
  ELSE "generalize"

\* the branch the pass takes for a class of the given size
KAnonDecision(size, k, suppressed, maxSuppressed) ==
  IF size >= k THEN "keep"
  ELSE IF suppressed + size <= maxSuppressed THEN "suppress"
  ELSE "generalize"

MinOf(xs) == CHOOSE x \in {xs[i] : i \in 1..Len(xs)} : \A i \in 1..Len(xs) : x <= xs[i]
MaxOf(xs) == CHOOSE x \in {xs[i] : i \in 1..Len(xs)} : \A i \in 1..Len(xs) : x >= xs[i]

\* SafetyScore without the cap at 100
SafetyScoreUncapped(minGroupSize, k) ==
  IF k = 0 THEN NaN
  ELSE Whole(IF k > 0 THEN RoundDiv(minGroupSize * 100, k)
             ELSE RoundDiv(0 - minGroupSize * 100, 0 - k))

\* Math.min(100, Math.round((minGroupSize / kValue) * 100)); with kValue = 0
\* the quotient is 0 / 0 = NaN or x / 0 = Infinity, and Math.min(100, Infinity)
\* is 100
SafetyScore(minGroupSize, k) ==
  IF k = 0 THEN (IF minGroupSize = 0 THEN NaN ELSE Whole(100))
  ELSE LET r == IF k > 0 THEN RoundDiv(minGroupSize * 100, k)
                ELSE RoundDiv(0 - minGroupSize * 100, 0 - k)
       IN Whole(IF r > 100 THEN 100 ELSE r)

\* the object applyKAnonymityEnhanced returns
KAnonResult(n, k, limit, out, suppressed, sizes) ==
  LET minGroupSize == IF Len(sizes) > 0 THEN MinOf(sizes) ELSE 0 IN
    [ op |-> "applyKAnonymityEnhanced",
      kValue |-> k,
      suppressionLimit |-> limit,
      processedData |-> out,
      recordsSuppressed |-> suppressed,
      informationLoss |-> NumDiv(Whole(suppressed), Whole(n)),
      equivalenceClasses |-> Len(sizes),
      avgGroupSize |-> IF Len(sizes) > 0 THEN Ratio(Len(out), Len(sizes)) ELSE Zero,
      minGroupSize |-> minGroupSize,
      maxGroupSize |-> IF Len(sizes) > 0 THEN MaxOf(sizes) ELSE 0,
      privacyRisk |-> SafetyScore(minGroupSize, k) ]

(***************************************************************************)
(* privacy-utils.ts: applyLDiversityDistinct, applyTCloseness                *)
(***************************************************************************)
SensitiveAttributes == {"disease"}

\* String(row[sensitiveAttribute] || "")
SensitiveValue(row, sens) == StringOrEmpty(row[sens])

\* sensitiveValuesByKey.get(ec.key).size
DistinctCount(d, records, sens) ==
  Cardinality({ SensitiveValue(d[records[p]], sens) : p \in 1..Len(records) })

\* LDiverse, requiring more than lValue distinct values
LDiverseStrict(distinctCount, l) == distinctCount > l

\* ec.distinctCount >= lValue
LDiverse(distinctCount, l) == distinctCount >= l

\* equivalenceClasses.forEach over the first n classes: the rows pushed to
\* processedData, by position in data
RECURSIVE KeptRows(_, _, _)
KeptRows(classes, keep, n) ==
  IF n = 0 THEN <<>>
  ELSE KeptRows(classes, keep, n - 1) \o (IF keep[n] THEN classes[n].records ELSE <<>>)

\* SuppressedCount with recordsSuppressed++ in place of += ec.size
SuppressedCountPerClass(classes, keep, n) == Cardinality({ j \in 1..n : ~keep[j] })

\* recordsSuppressed after the first n classes
RECURSIVE SuppressedCount(_, _, _)
SuppressedCount(classes, keep, n) ==
  IF n = 0 THEN 0
  ELSE SuppressedCount(classes, keep, n - 1) + (IF keep[n] THEN 0 ELSE classes[n].size)

\* applyLDiversityDistinct(data, quasiIdentifiers, sensitiveAttribute, lValue)
LDiversityResult(d, qis, sens, l) ==
  LET ecs == RiskClasses(d, qis)
      classes == [j \in 1..Len(ecs) |->
                    [key |-> ecs[j].key, records |-> ecs[j].records, size |-> ecs[j].size,
                     distinctCount |-> DistinctCount(d, ecs[j].records, sens)]]
      keep == [j \in 1..Len(classes) |-> LDiverse(classes[j].distinctCount, l)]
      kept == KeptRows(classes, keep, Len(classes))
      recordsSuppressed == SuppressedCount(classes, keep, Len(classes))
      diversities == [j \in 1..Len(classes) |-> classes[j].distinctCount]
  IN [ op |-> "applyLDiversityDistinct",
       sensitiveAttribute |-> sens,
       lValue |-> l,
       classes |-> classes,
       origin |-> kept,
       processedData |-> [p \in 1..Len(kept) |-> d[kept[p]]],
       recordsSuppressed |-> recordsSuppressed,
       informationLoss |-> NumDiv(Whole(recordsSuppressed), Whole(Len(d))),
       diverseClasses |-> Cardinality({j \in 1..Len(classes) : keep[j]}),
       violatingClasses |-> Cardinality({j \in 1..Len(classes) : ~keep[j]}),
       avgDiversity |-> IF Len(diversities) > 0
                        THEN Ratio(SumInt(diversities), Len(diversities))
                        ELSE Zero ]

\* the tValue thresholds tried, as fractions <<p, q>> = p / q
Thresholds == { <<0, 1>>, <<1, 4>>, <<1, 2>>, <<1, 1>> }

\* valueFrequency / groupValueFrequency: how many of the rows hold value val
Frequency(d, records, sens, val) ==
  Cardinality({ p \in 1..Len(records) : SensitiveValue(d[records[p]], sens) = val })

AllRows(d) == [i \in 1..Len(d) |-> i]

\* the values of the first n of the rows, appended to acc if not yet in it
\* (a Map or Set iterates in first-insertion order)
RECURSIVE AddValues(_, _, _, _, _)
AddValues(acc, d, records, sens, n) ==
  IF n = 0 THEN acc
  ELSE LET prev == AddValues(acc, d, records, sens, n - 1)
           val == SensitiveValue(d[records[n]], sens)
       IN IF \E i \in 1..Len(prev) : prev[i] = val THEN prev ELSE Append(prev, val)

\* allValues: the keys of overallDist, then those of groupDist
AllValues(d, records, sens) ==
  AddValues(AddValues(<<>>, d, AllRows(d), sens, Len(d)), d, records, sens, Len(records))

\* TCloseDistance without the halving
TCloseDistanceNotHalved(d, records, sens) ==
  LET vals == AllValues(d, records, sens) IN
    SumNum([v \in 1..Len(vals) |->
              NumAbs(NumAdd(NumDiv(Whole(Frequency(d, AllRows(d), sens, vals[v])),
                                   Whole(Len(d))),
                            NumMul(Whole(0 - 1),
                                   NumDiv(Whole(Frequency(d, records, sens, vals[v])),
                                          Whole(Len(records))))))])

\* emd of one class: the sum over allValues of |overallProb - groupProb|, halved
TCloseDistance(d, records, sens) ==
  LET vals == AllValues(d, records, sens)
      overallProb(val) == NumDiv(Whole(Frequency(d, AllRows(d), sens, val)), Whole(Len(d)))
      groupProb(val) == NumDiv(Whole(Frequency(d, records, sens, val)), Whole(Len(records)))
      emd == SumNum([v \in 1..Len(vals) |->
                       NumAbs(NumAdd(overallProb(vals[v]),
                                     NumMul(Whole(0 - 1), groupProb(vals[v]))))])
  IN NumDiv(emd, Whole(2))

\* TClose, requiring a distance below tValue
TCloseStrict(distance, t) == NumLt(distance, Ratio(t[1], t[2]))

\* emd <= tValue, tValue the fraction <<p, q>>
TClose(distance, t) == NumLe(distance, Ratio(t[1], t[2]))

RECURSIVE MaxNum(_)
MaxNum(xs) ==
  IF Len(xs) = 1 THEN xs[1]
  ELSE NumMax(MaxNum(SubSeq(xs, 1, Len(xs) - 1)), xs[Len(xs)])

\* applyTCloseness(data, quasiIdentifiers, sensitiveAttribute, tValue)
TClosenessResult(d, qis, sens, t) ==
  LET classes == RiskClasses(d, qis)
      distances == [j \in 1..Len(classes) |-> TCloseDistance(d, classes[j].records, sens)]
      keep == [j \in 1..Len(classes) |-> TClose(distances[j], t)]
      kept == KeptRows(classes, keep, Len(classes))
      recordsSuppressed == SuppressedCount(classes, keep, Len(classes))
  IN [ op |-> "applyTCloseness",
       sensitiveAttribute |-> sens,
       tValue |-> t,
       classes |-> classes,
       distances |-> distances,
       origin |-> kept,
       processedData |-> [p \in 1..Len(kept) |-> d[kept[p]]],
       recordsSuppressed |-> recordsSuppressed,
       informationLoss |-> NumDiv(Whole(recordsSuppressed), Whole(Len(d))),
       satisfyingClasses |-> Cardinality({j \in 1..Len(classes) : keep[j]}),
       violatingClasses |-> Cardinality({j \in 1..Len(classes) : ~keep[j]}),
       avgDistance |-> IF Len(distances) > 0
                       THEN NumDiv(SumNum(distances), Whole(Len(distances)))
                       ELSE Zero,
       maxDistance |-> IF Len(distances) > 0 THEN MaxNum(distances) ELSE Zero ]

(***************************************************************************)
(* State machine.                                                            *)
(***************************************************************************)
\* nothing returned yet: a behaviour is one call of one operation on one table
\* (the engine keeps no state from one call to the next)
NoResult == [op |-> "none"]

\* no second invocation has been made
NoCall == [pc |-> "none"]

Repeat(r, m) == [i \in 1..m |-> r]

\* a long run of one record, followed by at most one other record
BlockTables ==
  { Repeat(r, m) \o t : r \in Rows, m \in (MaxRows + 1)..MaxBlock, t \in SeqsUpTo(Rows, 1) }

\* the route handler has not answered yet
NoResponse == [status |-> 0]

InitLocals ==
  /\ pc = "idle"
  /\ result = NoResult
  /\ kValue = 0
  /\ suppressionLimit = <<0, 1>>
  /\ groups = <<>>
  /\ nextGroup = 0
  /\ processedData = <<>>
  /\ currentSuppressed = 0
  /\ groupSizes = <<>>
  /\ origin = <<>>
  /\ decisions = <<>>
  /\ second = NoCall
  /\ operations = <<>>
  /\ response = NoResponse

Init ==
  /\ data \in Tables
  /\ quasiIdentifiers \in QILists
  /\ InitLocals

\* three of the Rows: two records of one class and a record of another
FewRows ==
  { Row(Num(25), Str(<<"a">>), Str(<<"x">>)),
    Row(Num(25), Str(<<"a">>), Str(<<"y">>)),
    Row(Undefined, Str(<<"a">>), Undefined) }

\* the first of two successive calls
InitFew ==
  /\ data \in SeqsUpTo(FewRows, MaxRows)
  /\ quasiIdentifiers \in QILists
  /\ InitLocals

\* the first of two interleaved invocations
InitConcurrent ==
  /\ data \in SeqsUpTo(FewRows, MaxRows)
  /\ quasiIdentifiers = <<"age">>
  /\ InitLocals

InitRisk ==
  /\ data \in Tables \cup BlockTables
  /\ quasiIdentifiers \in QILists
  /\ InitLocals

CalculateRiskMetrics ==
  /\ pc = "idle"
  /\ result = NoResult
  /\ \E kThreshold \in 1..MaxK :
       result' = RiskMetrics(data, quasiIdentifiers, kThreshold)
  /\ data' = RowsAfterRiskMetrics(data)
  /\ UNCHANGED <<quasiIdentifiers, pc, second, operations, response>>
  /\ UNCHANGED kvars

NextRisk == CalculateRiskMetrics

SpecRisk == InitRisk /\ [][NextRisk]_vars

\* calculateRiskMetrics is called a second time, with the table and the
\* parameters of the first call
CalculateRiskMetricsAgain ==
  /\ pc = "idle"
  /\ result.op = "calculateRiskMetrics"
  /\ second = NoCall
  /\ second' = [pc |-> "returned",
                result |-> RiskMetrics(data, quasiIdentifiers, result.kThreshold)]
  /\ data' = RowsAfterRiskMetrics(data)
  /\ UNCHANGED <<quasiIdentifiers, pc, result, operations, response>>
  /\ UNCHANGED kvars

NextRiskTwice == CalculateRiskMetrics \/ CalculateRiskMetricsAgain

SpecRiskTwice == InitFew /\ [][NextRiskTwice]_vars

\* applyKAnonymityEnhanced is called: the Map of groups is built
KAnonBegin ==
  /\ pc = "idle"
  /\ result = NoResult
  /\ \E k \in 1..MaxK, limit \in SuppressionLimits :
       /\ kValue' = k
       /\ suppressionLimit' = limit
  /\ groups' = KAnonGroups(data, quasiIdentifiers)
  /\ nextGroup' = 1
  /\ processedData' = <<>>
  /\ currentSuppressed' = 0
  /\ groupSizes' = <<>>
  /\ origin' = <<>>
  /\ decisions' = <<>>
  /\ pc' = "kanon"
  /\ result' = NoResult
  /\ UNCHANGED <<data, quasiIdentifiers, second, operations, response>>

\* one iteration of groups.forEach
KAnonStep ==
  /\ pc = "kanon"
  /\ nextGroup <= Len(groups)
  /\ LET records == groups[nextGroup].records
         copies == [p \in 1..Len(records) |-> data[records[p]]]
         what == KAnonDecision(Len(records), kValue, currentSuppressed,
                               MaxSuppressed(Len(data), suppressionLimit))
     IN /\ decisions' = Append(decisions, [rows |-> records, what |-> what])
        /\ IF what = "keep"
           THEN /\ processedData' = processedData \o copies
                /\ origin' = origin \o records
                /\ groupSizes' = Append(groupSizes, Len(records))
                /\ UNCHANGED currentSuppressed
           ELSE IF what = "suppress"
           THEN /\ currentSuppressed' = currentSuppressed + Len(records)
                /\ UNCHANGED <<processedData, origin, groupSizes>>
           ELSE /\ processedData' = processedData \o
                      [p \in 1..Len(copies) |-> Generalize(copies[p], quasiIdentifiers)]
                /\ origin' = origin \o records
                /\ groupSizes' = Append(groupSizes, Len(records))
                /\ UNCHANGED currentSuppressed
  /\ nextGroup' = nextGroup + 1
  /\ UNCHANGED <<data, quasiIdentifiers, pc, result, kValue, suppressionLimit, groups, second, operations, response>>

\* the pass is over: the metrics are computed and the result returned
KAnonReturn ==
  /\ pc = "kanon"
  /\ nextGroup > Len(groups)
  /\ result' = KAnonResult(Len(data), kValue, suppressionLimit, processedData,
                           currentSuppressed, groupSizes)
  /\ pc' = "idle"
  /\ UNCHANGED <<data, quasiIdentifiers, second, operations, response>>
  /\ UNCHANGED kvars

NextKAnon == KAnonBegin \/ KAnonStep \/ KAnonReturn

SpecKAnon == Init /\ [][NextKAnon]_vars

(***************************************************************************)
(* routes.ts: POST /api/privacy/k-anonymity.  data is dataset.data of the    *)
(* dataset the request names; the call of applyKAnonymityEnhanced is the     *)
(* pass of KAnonBegin, KAnonStep, KAnonReturn.                               *)
(***************************************************************************)
\* the names declared in the handler when it builds the operation:
\* destructured from req.body (617), dataset (619), data (624), destructured
\* from the result of applyKAnonymityEnhanced (625)
HandlerScope ==
  { "datasetId", "quasiIdentifiers", "kValue", "suppressionLimit", "method",
    "dataset", "data", "processedData", "recordsSuppressed", "informationLoss",
    "equivalenceClasses", "avgGroupSize", "privacyRisk" }

\* the names read by the shorthand properties of parameters (637)
ParameterNames ==
  << "kValue", "suppressionLimit", "quasiIdentifiers", "equivalenceClasses",
     "avgGroupSize", "minGroupSize", "maxGroupSize", "privacyRisk" >>

\* reading a name that is not declared throws a ReferenceError
ThrowsReferenceError ==
  \E j \in 1..Len(ParameterNames) : ParameterNames[j] \notin HandlerScope

\* the operation handed to storage.createPrivacyOperation (632-641)
PrivacyOperation ==
  [ technique |-> "k-anonymity",
    parameters |-> [ kValue |-> kValue,
                     suppressionLimit |-> suppressionLimit,
                     quasiIdentifiers |-> quasiIdentifiers,
                     equivalenceClasses |-> result.equivalenceClasses,
                     avgGroupSize |-> result.avgGroupSize,
                     minGroupSize |-> result.minGroupSize,
                     maxGroupSize |-> result.maxGroupSize,
                     privacyRisk |-> result.privacyRisk ],
    processedData |-> result.processedData,
    recordsSuppressed |-> result.recordsSuppressed,
    informationLoss |-> result.informationLoss ]

\* storage.getDataset finds no dataset: 404 (619-622)
PostKAnonymityNotFound ==
  /\ pc = "idle"
  /\ result = NoResult
  /\ response = NoResponse
  /\ response' = [status |-> 404, body |-> "Dataset not found"]
  /\ UNCHANGED <<data, quasiIdentifiers, pc, result, second, operations>>
  /\ UNCHANGED kvars

\* the dataset is found: the handler calls applyKAnonymityEnhanced (624-630)
PostKAnonymityCall ==
  /\ response = NoResponse
  /\ NextKAnon

\* after the call: the operation is built and stored and sent, or the catch
\* block answers 500 (632-647)
PostKAnonymityRespond ==
  /\ pc = "idle"
  /\ result.op = "applyKAnonymityEnhanced"
  /\ response = NoResponse
  /\ IF ThrowsReferenceError
     THEN /\ response' = [status |-> 500, body |-> "Failed to apply k-anonymity"]
          /\ UNCHANGED operations
     ELSE /\ operations' = Append(operations, PrivacyOperation)
          /\ response' = [status |-> 200, body |-> PrivacyOperation]
  /\ UNCHANGED <<data, quasiIdentifiers, pc, result, second>>
  /\ UNCHANGED kvars

NextRoute == PostKAnonymityNotFound \/ PostKAnonymityCall \/ PostKAnonymityRespond

SpecRoute == Init /\ [][NextRoute]_vars

ApplyLDiversityDistinct ==
  /\ pc = "idle"
  /\ result = NoResult
  /\ \E sens \in SensitiveAttributes, l \in 1..MaxK :
       result' = LDiversityResult(data, quasiIdentifiers, sens, l)
  /\ UNCHANGED <<data, quasiIdentifiers, pc, second, operations, response>>
  /\ UNCHANGED kvars

ApplyTCloseness ==
  /\ pc = "idle"
  /\ result = NoResult
  /\ \E sens \in SensitiveAttributes, t \in Thresholds :
       result' = TClosenessResult(data, quasiIdentifiers, sens, t)
  /\ UNCHANGED <<data, quasiIdentifiers, pc, second, operations, response>>
  /\ UNCHANGED kvars

NextSuppress == ApplyLDiversityDistinct \/ ApplyTCloseness

SpecSuppress == Init /\ [][NextSuppress]_vars

\* any one of the three anonymization operations is called
NextAnonymize == NextKAnon \/ NextSuppress

SpecAnonymize == Init /\ [][NextAnonymize]_vars

(***************************************************************************)
(* routes.ts: addLaplaceNoise.  Math.random() makes the noise of a cell any  *)
(* number; the model draws it from a few integers.                           *)
(***************************************************************************)
\* records with numbers in two columns, with strings and with absent columns
NoiseRows ==
  { Row(Num(25), Str(<<"a">>), Str(<<"x">>)),
    Row(Num(0), Str(<<"a">>), Num(0)),
    Row(Undefined, Str(<<"a">>), Undefined) }

\* the column lists handed to addLaplaceNoise
NoiseColumnLists == { <<"age">>, <<"zip", "disease">> }

\* the noise values drawn for a cell
Noises == { 0 - 1, 2 }

\* the epsilon values tried, as fractions <<p, q>> = p / q
Epsilons == { <<1, 2>>, <<2, 1>> }

\* NoisyValue without the typeof test: a string + number concatenates, and
\* undefined + number is NaN
NoisyValueUnchecked(val, noise) ==
  IF val.t = "number" THEN Num(val.n + noise)
  ELSE IF val.t = "string" THEN Str(val.s \o IntStr(noise))
  ELSE Str(<<"N", "a", "N">>)

\* if (typeof newRow[col] === "number") newRow[col] = newRow[col] + noise
NoisyValue(val, noise) == IF val.t = "number" THEN Num(val.n + noise) ELSE val

\* columns.forEach over the first n columns of the copy newRow, noise[j] being
\* the noise drawn for the j-th column
RECURSIVE NoisyColumns(_, _, _, _)
NoisyColumns(newRow, columns, noise, n) ==
  IF n = 0 THEN newRow
  ELSE LET r == NoisyColumns(newRow, columns, noise, n - 1) IN
         [r EXCEPT ![columns[n]] = NoisyValue(r[columns[n]], noise[n])]

\* addLaplaceNoise(data, columns, epsilon), noise[i][j] being the noise drawn
\* for the j-th column of the i-th row
LaplaceNoiseResult(d, columns, epsilon, noise) ==
  [ op |-> "addLaplaceNoise",
    columns |-> columns,
    epsilon |-> epsilon,
    processedData |-> [i \in 1..Len(d) |-> NoisyColumns(d[i], columns, noise[i], Len(columns))],
    informationLoss |-> NumMul(Ratio(1, 10), Ratio(epsilon[2], epsilon[1])) ]

InitNoise ==
  /\ data \in SeqsUpTo(NoiseRows, MaxRows)
  /\ quasiIdentifiers \in QILists
  /\ InitLocals

AddLaplaceNoise ==
  /\ pc = "idle"
  /\ result = NoResult
  /\ \E columns \in NoiseColumnLists, epsilon \in Epsilons :
       \E noise \in [1..Len(data) -> [1..Len(columns) -> Noises]] :
         result' = LaplaceNoiseResult(data, columns, epsilon, noise)
  /\ UNCHANGED <<data, quasiIdentifiers, pc, second, operations, response>>
  /\ UNCHANGED kvars

NextNoise == AddLaplaceNoise

SpecNoise == InitNoise /\ [][NextNoise]_vars

(***************************************************************************)
(* Two invocations at once.  The first is the one of the variables above;   *)
(* the second, a call of applyKAnonymityEnhanced on another table, keeps its *)
(* arguments and locals in the record second.  The steps of the two          *)
(* interleave at every iteration of groups.forEach.                          *)
(***************************************************************************)
\* the tables handed to the second invocation
OtherTables ==
  { t \in [1..2 -> FewRows] : t[1].age.t = "number" /\ t[2] # t[1] }

\* the arguments and locals of a call of applyKAnonymityEnhanced at the
\* start of its pass
KAnonLocals(d, qis, k, limit) ==
  [ pc |-> "kanon", data |-> d, quasiIdentifiers |-> qis, kValue |-> k,
    suppressionLimit |-> limit, groups |-> KAnonGroups(d, qis), nextGroup |-> 1,
    processedData |-> <<>>, currentSuppressed |-> 0, groupSizes |-> <<>>,
    result |-> NoResult ]

\* OwnCounter, were currentSuppressed one counter shared by all calls
SharedCounter(st) == currentSuppressed

\* the counter a call reads and writes: let currentSuppressed is declared in
\* the function body, one per call
OwnCounter(st) == st.currentSuppressed

\* one iteration of groups.forEach on the locals st of a call, suppressed
\* being the value it reads for currentSuppressed
KAnonIterate(st, suppressed) ==
  LET records == st.groups[st.nextGroup].records
      copies == [p \in 1..Len(records) |-> st.data[records[p]]]
      what == KAnonDecision(Len(records), st.kValue, suppressed,
                            MaxSuppressed(Len(st.data), st.suppressionLimit))
  IN [st EXCEPT
        !.nextGroup = @ + 1,
        !.processedData =
          IF what = "keep" THEN @ \o copies
          ELSE IF what = "suppress" THEN @
          ELSE @ \o [p \in 1..Len(copies) |-> Generalize(copies[p], st.quasiIdentifiers)],
        !.groupSizes = IF what = "suppress" THEN @ ELSE Append(@, Len(records)),
        !.currentSuppressed = IF what = "suppress" THEN suppressed + Len(records) ELSE @]

\* the second invocation is made: applyKAnonymityEnhanced on another table
SecondKAnonBegin ==
  /\ second = NoCall
  /\ \E d \in OtherTables \ {data} :
       second' = KAnonLocals(d, <<"age">>, MaxK - 1, <<1, 2>>)
  /\ UNCHANGED <<data, quasiIdentifiers, pc, result, operations, response>>
  /\ UNCHANGED kvars

\* one iteration of groups.forEach of the second invocation
SecondKAnonStep ==
  /\ second.pc = "kanon"
  /\ second.nextGroup <= Len(second.groups)
  /\ second' = KAnonIterate(second, OwnCounter(second))
  /\ UNCHANGED <<data, quasiIdentifiers, pc, result, operations, response>>
  /\ UNCHANGED kvars

\* the second invocation returns
SecondKAnonReturn ==
  /\ second.pc = "kanon"
  /\ second.nextGroup > Len(second.groups)
  /\ second' = [second EXCEPT
                  !.pc = "returned",
                  !.result = KAnonResult(Len(second.data), second.kValue,
                                         second.suppressionLimit, second.processedData,
                                         second.currentSuppressed, second.groupSizes)]
  /\ UNCHANGED <<data, quasiIdentifiers, pc, result, operations, response>>
  /\ UNCHANGED kvars

NextConcurrent ==
  \/ CalculateRiskMetrics
  \/ NextKAnon
  \/ NextSuppress
  \/ SecondKAnonBegin
  \/ SecondKAnonStep
  \/ SecondKAnonReturn

SpecConcurrent == InitConcurrent /\ [][NextConcurrent]_vars

(***************************************************************************)
(* The operations called with parameters outside their documented ranges.   *)
(* None of the functions tests its parameters (part_001:17-32, 110-126,     *)
(* 176-192): the call runs as for any other value.                           *)
(***************************************************************************)
\* kValue / lValue that are not positive
InvalidCounts == { 0 - 1, 0 }

\* suppressionLimit / tValue outside [0, 1], as fractions <<p, q>> = p / q
InvalidFractions == { <<0 - 1, 2>>, <<3, 2>> }

\* applyKAnonymityEnhanced is called with kValue <= 0 or with a
\* suppressionLimit outside [0, 1]
KAnonBeginInvalid ==
  /\ pc = "idle"
  /\ result = NoResult
  /\ \E call \in (InvalidCounts \X SuppressionLimits) \cup ({MaxK - 1} \X InvalidFractions) :
       /\ kValue' = call[1]
       /\ suppressionLimit' = call[2]
  /\ groups' = KAnonGroups(data, quasiIdentifiers)
  /\ nextGroup' = 1
  /\ processedData' = <<>>
  /\ currentSuppressed' = 0
  /\ groupSizes' = <<>>
  /\ origin' = <<>>
  /\ decisions' = <<>>
  /\ pc' = "kanon"
  /\ result' = NoResult
  /\ UNCHANGED <<data, quasiIdentifiers, second, operations, response>>

\* applyLDiversityDistinct is called with lValue <= 0
ApplyLDiversityInvalid ==
  /\ pc = "idle"
  /\ result = NoResult
  /\ \E sens \in SensitiveAttributes, l \in InvalidCounts :
       result' = LDiversityResult(data, quasiIdentifiers, sens, l)
  /\ UNCHANGED <<data, quasiIdentifiers, pc, second, operations, response>>
  /\ UNCHANGED kvars

\* applyTCloseness is called with tValue outside [0, 1]
ApplyTClosenessInvalid ==
  /\ pc = "idle"
  /\ result = NoResult
  /\ \E sens \in SensitiveAttributes, t \in InvalidFractions :
       result' = TClosenessResult(data, quasiIdentifiers, sens, t)
  /\ UNCHANGED <<data, quasiIdentifiers, pc, second, operations, response>>
  /\ UNCHANGED kvars

NextInvalid ==
  KAnonBeginInvalid \/ KAnonStep \/ KAnonReturn \/ ApplyLDiversityInvalid
    \/ ApplyTClosenessInvalid

SpecInvalid == Init /\ [][NextInvalid]_vars

(***************************************************************************)
(* Properties of calculateRiskMetrics (checked under SpecRisk).              *)
(***************************************************************************)
RiskDone == result.op = "calculateRiskMetrics"

\* the places (class, position) at which row i is held
PlacesOf(classes, i) ==
  { <<j, p>> \in (1..Len(classes)) \X (1..Len(data)) :
      p <= Len(classes[j].records) /\ classes[j].records[p] = i }

\* rows i1 and i2 are held by the same class
SameClass(classes, i1, i2) ==
  \E j \in 1..Len(classes) :
    /\ \E p \in 1..Len(classes[j].records) : classes[j].records[p] = i1
    /\ \E p \in 1..Len(classes[j].records) : classes[j].records[p] = i2

\* C1: the equivalence classes built by calculateRiskMetrics partition the
\* table: every input record is held exactly once, nothing else is held, each
\* class has size = number of its records, and the sizes sum to the table length.
C1_ClassesPartitionTable ==
  RiskDone =>
    LET classes == result.equivalenceClasses IN
      /\ \A i \in 1..Len(data) : Cardinality(PlacesOf(classes, i)) = 1
      /\ \A j \in 1..Len(classes) :
           /\ classes[j].size = Len(classes[j].records)
           /\ \A p \in 1..Len(classes[j].records) :
                classes[j].records[p] \in 1..Len(data)
      /\ SumInt(Sizes(classes)) = Len(data)

C1_Witness ==
  /\ RiskDone
  /\ Len(data) = MaxRows
  /\ Len(result.equivalenceClasses) = 2

\* a quasi-identifier value, a missing one counting as the empty string
MissingAsEmpty(v) == IF v.t = "undefined" THEN Str(<<>>) ELSE v

QITuple(row, qis) == [i \in 1..Len(qis) |-> MissingAsEmpty(row[qis[i]])]

\* C2: two records fall in the same equivalence class of calculateRiskMetrics
\* if and only if their tuples of quasi-identifier values are equal (a missing
\* value counting as the empty string).
C2_SameClassIffSameValues ==
  RiskDone =>
    \A i1, i2 \in 1..Len(data) :
      SameClass(result.equivalenceClasses, i1, i2)
        <=> QITuple(data[i1], quasiIdentifiers) = QITuple(data[i2], quasiIdentifiers)

InUnitInterval(x) == NumLe(Zero, x) /\ NumLe(x, One)

\* C8: prosecutorRisk lies in [0,1], and for a table (with at least one record)
\* in which every record is alone in its equivalence class it is exactly 1.
C8_ProsecutorRiskRange ==
  RiskDone =>
    /\ InUnitInterval(result.prosecutorRisk)
    /\ ( /\ Len(data) > 0
         /\ \A j \in 1..Len(result.equivalenceClasses) :
              result.equivalenceClasses[j].size = 1 )
       => NumEq(result.prosecutorRisk, One)

C8_Witness ==
  /\ RiskDone
  /\ Len(data) = MaxRows
  /\ \A j \in 1..Len(result.equivalenceClasses) : result.equivalenceClasses[j].size = 1
  /\ NumEq(result.prosecutorRisk, One)

\* C9: for every non-empty table, marketerRisk and every per-class marketer
\* risk lie in [0,1], whatever the class sizes.
C9_MarketerRiskRange ==
  (RiskDone /\ Len(data) > 0) =>
    /\ InUnitInterval(result.marketerRisk)
    /\ \A j \in 1..Len(result.marketerPerClass) :
         InUnitInterval(result.marketerPerClass[j])

\* C10: for an empty table calculateRiskMetrics returns prosecutorRisk = 0,
\* journalistRisk = 0, marketerRisk = 0 and uniqueRecords = 0, none of them NaN.
C10_EmptyTableZeroRisks ==
  (RiskDone /\ Len(data) = 0) =>
    /\ NumEq(result.prosecutorRisk, Zero)
    /\ NumEq(result.journalistRisk, Zero)
    /\ NumEq(result.marketerRisk, Zero)
    /\ result.uniqueRecords = 0

(***************************************************************************)
(* Properties of applyKAnonymityEnhanced (checked under SpecKAnon).          *)
(***************************************************************************)
KAnonDone == result.op = "applyKAnonymityEnhanced"
KAnonRunning == pc = "kanon"

\* the output records whose quasi-identifier values equal those of out[p]
Alike(out, p, qis) ==
  { p2 \in 1..Len(out) : Projection(out[p2], qis) = Projection(out[p], qis) }

\* C3: the table returned by applyKAnonymityEnhanced is k-anonymous: grouped
\* by their (possibly generalized) quasi-identifier values, its records form
\* classes of at least k records.
C3_OutputIsKAnonymous ==
  KAnonDone =>
    \A p \in 1..Len(result.processedData) :
      Cardinality(Alike(result.processedData, p, quasiIdentifiers)) >= result.kValue

\* the input rows of the classes processed so far that are not in the output
SuppressedRows ==
  { i \in 1..Len(data) :
      /\ \E c \in 1..Len(decisions) :
           \E p \in 1..Len(decisions[c].rows) : decisions[c].rows[p] = i
      /\ ~ \E p \in 1..Len(origin) : origin[p] = i }

\* C4: at every step of the pass over the classes and in the result, the
\* number of suppressed records is at most floor(tableSize * suppressionLimit).
C4_SuppressionWithinLimit ==
  (KAnonRunning \/ KAnonDone) =>
    /\ currentSuppressed = Cardinality(SuppressedRows)
    /\ currentSuppressed * suppressionLimit[2] <= Len(data) * suppressionLimit[1]
    /\ KAnonDone => result.recordsSuppressed = currentSuppressed

C4_Witness ==
  /\ KAnonDone
  /\ result.recordsSuppressed > 0
  /\ result.recordsSuppressed < Len(data)
  /\ \E c \in 1..Len(decisions) : decisions[c].what = "generalize"

\* the output positions that hold a copy of input row i
CopiesOf(i) == { p \in 1..Len(origin) : origin[p] = i }

\* C5: every class emitted without generalization has size >= k, and every
\* class of size >= k is emitted with all of its records, every column value
\* unchanged.
C5_KeptVerbatimIffLargeEnough ==
  (KAnonRunning \/ KAnonDone) =>
    \A c \in 1..Len(decisions) :
      LET rows == decisions[c].rows IN
        /\ decisions[c].what = "keep" => Len(rows) >= kValue
        /\ Len(rows) >= kValue =>
             \A q \in 1..Len(rows) :
               /\ Cardinality(CopiesOf(rows[q])) = 1
               /\ \A p \in CopiesOf(rows[q]) : processedData[p] = data[rows[q]]

C5_Witness ==
  /\ KAnonDone
  /\ \E c \in 1..Len(decisions) :
       decisions[c].what = "keep" /\ Len(decisions[c].rows) = kValue /\ kValue > 1
  /\ \E c \in 1..Len(decisions) : decisions[c].what = "generalize"

(***************************************************************************)
(* Properties of applyLDiversityDistinct and applyTCloseness (checked under  *)
(* SpecSuppress).                                                            *)
(***************************************************************************)
LDiversityDone == result.op = "applyLDiversityDistinct"
TClosenessDone == result.op = "applyTCloseness"

\* the output positions of result that hold input row i
OutputPlaces(i) == { p \in 1..Len(result.origin) : result.origin[p] = i }

\* class j of the result is in the output in full, each record once and unchanged
KeptInFull(j) ==
  \A q \in 1..Len(result.classes[j].records) :
    LET i == result.classes[j].records[q] IN
      /\ Cardinality(OutputPlaces(i)) = 1
      /\ \A p \in OutputPlaces(i) : result.processedData[p] = data[i]

\* no record of class j of the result is in the output
DroppedInFull(j) ==
  \A q \in 1..Len(result.classes[j].records) :
    OutputPlaces(result.classes[j].records[q]) = {}

\* C6: applyLDiversityDistinct keeps a class in full exactly when its
\* distinctCount is >= l and otherwise drops it in full; every retained class
\* has distinctCount >= l, and recordsSuppressed plus the length of
\* processedData equals the table size.
C6_LDiversityKeepsDiverseClasses ==
  LDiversityDone =>
    /\ \A j \in 1..Len(result.classes) :
         IF result.classes[j].distinctCount >= result.lValue
         THEN KeptInFull(j)
         ELSE DroppedInFull(j)
    /\ result.recordsSuppressed + Len(result.processedData) = Len(data)
    /\ Len(result.processedData) = Len(result.origin)

C6_Witness ==
  /\ LDiversityDone
  /\ \E j \in 1..Len(result.classes) :
       result.classes[j].distinctCount = result.lValue /\ result.lValue > 1
  /\ \E j \in 1..Len(result.classes) : result.classes[j].distinctCount < result.lValue

\* how many of the rows (positions in data) hold the sensitive value val
Holding(rows, sens, val) ==
  Cardinality({ p \in 1..Len(rows) : SensitiveValue(data[rows[p]], sens) = val })

\* sum over the values V of |P(v) - Q(v)| * n * s, with P the frequencies in
\* the whole table (n rows) and Q those in the class (s rows)
RECURSIVE SumAbsDifference(_, _, _)
SumAbsDifference(V, rows, sens) ==
  IF V = {} THEN 0
  ELSE LET v == CHOOSE x \in V : TRUE IN
         Abs(Holding(AllRows(data), sens, v) * Len(rows)
               - Holding(rows, sens, v) * Len(data))
           + SumAbsDifference(V \ {v}, rows, sens)

\* half the sum over all sensitive values of |P(v) - Q(v)|
HalfL1Distance(rows, sens) ==
  Ratio(SumAbsDifference({ SensitiveValue(data[i], sens) : i \in 1..Len(data) }, rows, sens),
        2 * Len(data) * Len(rows))

FractionInUnit(f) == 0 <= f[1] /\ f[1] <= f[2]

\* an operation is running or has returned that was called with a parameter
\* outside its range
InvalidCall ==
  \/ KAnonRunning /\ (kValue <= 0 \/ ~FractionInUnit(suppressionLimit))
  \/ KAnonDone /\ (result.kValue <= 0 \/ ~FractionInUnit(result.suppressionLimit))
  \/ LDiversityDone /\ result.lValue <= 0
  \/ TClosenessDone /\ ~FractionInUnit(result.tValue)

\* the call ended with an error outcome: no pass entered, no table returned
Rejected == pc = "idle" /\ result.op = "error"

\* C11: an operation called with an invalid parameter (kValue <= 0,
\* suppressionLimit outside [0,1], lValue <= 0, tValue outside [0,1]) is
\* rejected before any work: it returns an error outcome and no processed table.
C11_InvalidParameterRejected == InvalidCall => Rejected

(***************************************************************************)
(* Properties of the three anonymization operations (checked under           *)
(* SpecAnonymize).                                                           *)
(***************************************************************************)
\* C12: for an empty table, applyKAnonymityEnhanced, applyLDiversityDistinct
\* and applyTCloseness return informationLoss = 0 and 0 for every other ratio
\* metric (avgGroupSize, avgDiversity, avgDistance), never NaN.
C12_EmptyTableZeroMetrics ==
  (Len(data) = 0 /\ (KAnonDone \/ LDiversityDone \/ TClosenessDone)) =>
    /\ NumEq(result.informationLoss, Zero)
    /\ KAnonDone => NumEq(result.avgGroupSize, Zero)
    /\ LDiversityDone => NumEq(result.avgDiversity, Zero)
    /\ TClosenessDone => NumEq(result.avgDistance, Zero)

\* the column names of a record: the columns it holds a value for
ColumnNames(r) == { c \in Columns : r[c].t # "undefined" }

\* C13: every record returned by applyKAnonymityEnhanced has exactly the
\* column names of the input record it was made from, also when the record is
\* generalized and a quasi-identifier column is absent from it.
C13_ColumnNamesPreserved ==
  KAnonDone =>
    \A p \in 1..Len(result.processedData) :
      ColumnNames(result.processedData[p]) = ColumnNames(data[origin[p]])

\* every class of the input, as applyKAnonymityEnhanced groups it, has at
\* least kValue records
AllClassesLargeEnough == \A g \in 1..Len(groups) : groups[g].size >= kValue

\* C16: when every equivalence class of the (non-empty) input has size >= k,
\* applyKAnonymityEnhanced keeps every record, unchanged, recordsSuppressed is
\* 0, minGroupSize is the smallest class size and the safety score
\* min(100, round(minGroupSize / k * 100)) is 100.
C16_NothingToDoWhenKAnonymous ==
  (KAnonDone /\ Len(data) > 0 /\ AllClassesLargeEnough) =>
    /\ Len(result.processedData) = Len(data)
    /\ \A i \in 1..Len(data) :
         /\ Cardinality(CopiesOf(i)) = 1
         /\ \A p \in CopiesOf(i) : result.processedData[p] = data[i]
    /\ result.recordsSuppressed = 0
    /\ \A g \in 1..Len(groups) : result.minGroupSize <= groups[g].size
    /\ \E g \in 1..Len(groups) : result.minGroupSize = groups[g].size
    /\ NumEq(result.privacyRisk, Whole(100))

C16_Witness ==
  /\ KAnonDone
  /\ AllClassesLargeEnough
  /\ kValue = 2
  /\ result.minGroupSize > kValue
  /\ NumEq(result.privacyRisk, Whole(100))

\* suppressionLimit is 1.0
FullBudget == suppressionLimit[1] = suppressionLimit[2]

\* C17: with suppressionLimit = 1.0 and any k, applyKAnonymityEnhanced
\* suppresses every class smaller than k and generalizes none; for a
\* (non-empty) table whose records are each alone in their class and k = 2 it
\* returns an empty table, recordsSuppressed = table size, informationLoss = 1.
C17_FullBudgetSuppressesAll ==
  ((KAnonRunning \/ KAnonDone) /\ FullBudget) =>
    /\ \A c \in 1..Len(decisions) :
         /\ decisions[c].what # "generalize"
         /\ Len(decisions[c].rows) < kValue =>
              /\ decisions[c].what = "suppress"
              /\ \A q \in 1..Len(decisions[c].rows) : CopiesOf(decisions[c].rows[q]) = {}
    /\ ( /\ KAnonDone
         /\ kValue = 2
         /\ Len(data) > 0
         /\ \A g \in 1..Len(groups) : groups[g].size = 1 )
       => /\ result.processedData = <<>>
          /\ result.recordsSuppressed = Len(data)
          /\ NumEq(result.informationLoss, One)

C17_Witness ==
  /\ KAnonDone
  /\ FullBudget
  /\ kValue = 2
  /\ Len(data) = MaxRows
  /\ \A g \in 1..Len(groups) : groups[g].size = 1
  /\ result.processedData = <<>>
  /\ result.recordsSuppressed = MaxRows

\* the number of records suppressed before the c-th class was processed
RECURSIVE SuppressedBefore(_)
SuppressedBefore(c) ==
  IF c <= 1 THEN 0
  ELSE SuppressedBefore(c - 1)
         + (IF decisions[c - 1].what = "suppress" THEN Len(decisions[c - 1].rows) ELSE 0)

\* the c-th processed class has fewer than kValue records
Undersized(c) == Len(decisions[c].rows) < kValue

\* the c-th processed class fits in what is left of the suppression budget
\* floor(tableSize * suppressionLimit)
FitsBudget(c) ==
  (SuppressedBefore(c) + Len(decisions[c].rows)) * suppressionLimit[2]
    <= Len(data) * suppressionLimit[1]

\* C19 (as stated): in applyKAnonymityEnhanced, once an undersized class has
\* been generalized every later undersized class is generalized too: no class
\* is suppressed after a class has been generalized.
C19_NoSuppressionAfterGeneralization ==
  (KAnonRunning \/ KAnonDone) =>
    \A c1, c2 \in 1..Len(decisions) :
      (c1 < c2 /\ decisions[c1].what = "generalize") => decisions[c2].what # "suppress"

\* C19 (amended): an undersized class is suppressed exactly when its size fits
\* in the remaining budget and is generalized otherwise; after a class has been
\* generalized, every later undersized class of the same or a larger size is
\* generalized too (a smaller one that still fits is suppressed).
C19_SuppressedIffFitsBudget ==
  (KAnonRunning \/ KAnonDone) =>
    /\ \A c \in 1..Len(decisions) :
         Undersized(c) =>
           decisions[c].what = (IF FitsBudget(c) THEN "suppress" ELSE "generalize")
    /\ \A c1, c2 \in 1..Len(decisions) :
         ( /\ c1 < c2
           /\ decisions[c1].what = "generalize"
           /\ Undersized(c2)
           /\ Len(decisions[c2].rows) >= Len(decisions[c1].rows) )
         => decisions[c2].what = "generalize"

C19_Witness ==
  /\ KAnonDone
  /\ \E c1, c2 \in 1..Len(decisions) :
       /\ c1 < c2
       /\ decisions[c1].what = "generalize"
       /\ decisions[c2].what = "suppress"
       /\ Len(decisions[c2].rows) < Len(decisions[c1].rows)

(***************************************************************************)
(* Further properties of applyTCloseness (checked under SpecSuppress).       *)
(***************************************************************************)
\* every sensitive value has the same relative frequency in class j of the
\* result as in the whole table
SameDistribution(j) ==
  LET rows == result.classes[j].records IN
    \A i \in 1..Len(data) :
      LET v == SensitiveValue(data[i], result.sensitiveAttribute) IN
        Holding(rows, result.sensitiveAttribute, v) * Len(data)
          = Holding(AllRows(data), result.sensitiveAttribute, v) * Len(rows)

\* C18: in applyTCloseness a class whose distribution of the sensitive
\* attribute equals that of the whole table (in particular the only class of
\* a single-class table) has distance exactly 0 and is kept for every t >= 0.
C18_SameDistributionKept ==
  TClosenessDone =>
    /\ \A j \in 1..Len(result.classes) :
         SameDistribution(j) => (NumEq(result.distances[j], Zero) /\ KeptInFull(j))
    /\ Len(result.classes) = 1 =>
         /\ NumEq(result.distances[1], Zero)
         /\ result.processedData = data
         /\ result.recordsSuppressed = 0

C18_Witness ==
  /\ TClosenessDone
  /\ result.tValue[1] = 0
  /\ Len(data) = MaxRows
  /\ Len(result.classes) = 2
  /\ \A j \in 1..Len(result.classes) : SameDistribution(j) /\ KeptInFull(j)

(***************************************************************************)
(* Further properties of calculateRiskMetrics (checked under SpecRisk).      *)
(***************************************************************************)
\* size / estimatedPopGroupSize of class j of the result
MarketerBase(j) ==
  Ratio(result.equivalenceClasses[j].size,
        EstimatedPopGroupSize(result.equivalenceClasses[j].size, Len(data),
                              EstimatedPopSize(Len(data))))

\* C20: the targeting boost of calculateMarketerRisk changes the risk of a
\* non-unique class only when its size is below 5: for size >= 5 the class
\* risk is the unboosted min(1, size / estimatedPopGroupSize), for size 2..4
\* it is min(1, base * (1 + min(0.4, (5 - size) * 0.1))).
C20_BoostOnlyBelowFive ==
  RiskDone =>
    \A j \in 1..Len(result.equivalenceClasses) :
      LET size == result.equivalenceClasses[j].size IN
        /\ size >= 5 => NumEq(result.marketerPerClass[j], NumMin(One, MarketerBase(j)))
        /\ (2 <= size /\ size <= 4) =>
             NumEq(result.marketerPerClass[j],
                   NumMin(One, NumMul(MarketerBase(j),
                                      NumAdd(One, NumMin(Ratio(4, 10), Ratio(5 - size, 10))))))

RECURSIVE KAnonRun(_)
KAnonRun(st) ==
  IF st.nextGroup > Len(st.groups) THEN st
  ELSE KAnonRun(KAnonIterate(st, st.currentSuppressed))

\* what applyKAnonymityEnhanced returns when it runs alone
KAnonAlone(d, qis, k, limit) ==
  LET st == KAnonRun(KAnonLocals(d, qis, k, limit)) IN
    KAnonResult(Len(d), k, limit, st.processedData, st.currentSuppressed, st.groupSizes)

AssumedPopulation == IF Len(data) * 50 > 100000 THEN Len(data) * 50 ELSE 100000

\* max(1, round(size / n * P))
PopulationShare(size) ==
  LET r == (2 * size * AssumedPopulation + Len(data)) \div (2 * Len(data)) IN
    IF r < 1 THEN 1 ELSE r

\* the journalist risk of a class of the given size
JournalistShare(size) ==
  IF size = 1 THEN Ratio(1, 2) ELSE NumMin(One, Ratio(size, PopulationShare(size)))

\* W: the size-weighted mean of the per-class journalist risks
WeightedJournalist ==
  LET classes == result.equivalenceClasses IN
    NumDiv(SumNum([j \in 1..Len(classes) |->
                     NumMul(JournalistShare(classes[j].size), Whole(classes[j].size))]),
           Whole(Len(data)))

\* U: the number of classes of size 1
UniqueClasses ==
  Cardinality({ j \in 1..Len(result.equivalenceClasses) :
                  result.equivalenceClasses[j].size = 1 })

\* C21: for every non-empty table, journalistRisk equals
\* min(1, W + min(0.3, U / n * 0.5)) with W the size-weighted mean of the
\* per-class risks (0.5 for size 1, else min(1, size / max(1, round(size/n*P))),
\* P = max(n * 50, 100000)), and lies in [0,1].
C21_JournalistRiskFormula ==
  (RiskDone /\ Len(data) > 0) =>
    /\ NumEq(result.journalistRisk,
             NumMin(One, NumAdd(WeightedJournalist,
                                NumMin(Ratio(3, 10), Ratio(UniqueClasses, 2 * Len(data))))))
    /\ InUnitInterval(result.journalistRisk)

C21_Witness ==
  /\ RiskDone
  /\ Len(data) > MaxRows
  /\ UniqueClasses = 1
  /\ Len(result.equivalenceClasses) = 2
  /\ NumLt(Zero, result.journalistRisk)
  /\ NumLt(result.journalistRisk, Ratio(3, 10))

\* the recommendations of the result hold one with this text
Advised(text) ==
  \E i \in 1..Len(result.recommendations) : result.recommendations[i].text = text

\* x is a number above p / q
Above(x, p, q) == ~IsNaN(x) /\ Compare(x, Ratio(p, q)) = 1

\* the number of classes of the result smaller than kThreshold
ClassesBelowThreshold ==
  Cardinality({ j \in 1..Len(result.equivalenceClasses) :
                  result.equivalenceClasses[j].size < result.kThreshold })

\* one of the threshold rules of generateRecommendations fires
SomeRuleFires ==
  \/ Above(result.prosecutorRisk, 2, 10)
  \/ Above(result.journalistRisk, 3, 10)
  \/ Above(result.marketerRisk, 25, 100)
  \/ UniqueClasses * 10 > Len(data)
  \/ ClassesBelowThreshold > 0

\* C22: the recommendations follow the threshold rules: critical prosecutor
\* advice iff prosecutorRisk > 0.4, moderate warning iff 0.2 < prosecutorRisk
\* <= 0.4, journalist advice iff journalistRisk > 0.3, marketer advice iff
\* marketerRisk > 0.25, unique-ratio advice iff the classes of size 1 exceed
\* 10% of the records, violation count iff some class is smaller than
\* kThreshold, the single 'acceptable' message iff no rule fired; the list is
\* never empty.
C22_RecommendationsFollowThresholds ==
  RiskDone =>
    /\ Advised("CRITICAL: High prosecutor attack risk. Too many unique/small records.")
         <=> Above(result.prosecutorRisk, 4, 10)
    /\ Advised("WARNING: Moderate prosecutor attack risk detected.")
         <=> (Above(result.prosecutorRisk, 2, 10) /\ ~Above(result.prosecutorRisk, 4, 10))
    /\ Advised("Journalist attack risk is elevated. Consider sampling restrictions.")
         <=> Above(result.journalistRisk, 3, 10)
    /\ Advised("Marketer bulk targeting risk is significant.")
         <=> Above(result.marketerRisk, 25, 100)
    /\ Advised("High ratio of unique records") <=> UniqueClasses * 10 > Len(data)
    /\ Advised("groups violate k-anonymity") <=> ClassesBelowThreshold > 0
    /\ \A i \in 1..Len(result.recommendations) :
         result.recommendations[i].text = "groups violate k-anonymity" =>
           result.recommendations[i].numbers = <<ClassesBelowThreshold, result.kThreshold>>
    /\ Advised("Risk levels are acceptable. Data appears well-protected.") <=> ~SomeRuleFires
    /\ ~SomeRuleFires => Len(result.recommendations) = 1
    /\ Len(result.recommendations) > 0

C22_Witness ==
  /\ RiskDone
  /\ Advised("WARNING: Moderate prosecutor attack risk detected.")
  /\ Advised("groups violate k-anonymity")
  /\ NumEq(result.prosecutorRisk, Ratio(4, 10))
  /\ ~Advised("Journalist attack risk is elevated. Consider sampling restrictions.")

(***************************************************************************)
(* Further properties of applyLDiversityDistinct (checked under              *)
(* SpecSuppress).                                                            *)
(***************************************************************************)
\* the sensitive values of the records of class j of the result, a missing
\* one counting as the empty string and every other value as itself
SensitiveValuesOf(j) ==
  { MissingAsEmpty(data[result.classes[j].records[p]][result.sensitiveAttribute]) :
      p \in 1..Len(result.classes[j].records) }

\* C23: in applyLDiversityDistinct the distinctCount of a class is the number
\* of distinct sensitive values among its records, only a missing value being
\* identified with the empty string: records whose sensitive values differ
\* (such as the number 0 and a missing value) count as two distinct values.
C23_DistinctCountCountsValues ==
  LDiversityDone =>
    \A j \in 1..Len(result.classes) :
      result.classes[j].distinctCount = Cardinality(SensitiveValuesOf(j))

(***************************************************************************)
(* Further properties of applyKAnonymityEnhanced (checked under SpecKAnon).  *)
(***************************************************************************)
\* column c is one of the quasi-identifiers
IsQuasiIdentifier(c) == \E q \in 1..Len(quasiIdentifiers) : quasiIdentifiers[q] = c

\* the label 'L-U' of the number v: L = floor(v / 10) * 10, U = L + 10
RangeLabel(v) ==
  LET L == CHOOSE x \in (v - 9)..v : x % 10 = 0 IN
    Str(IntStr(L) \o <<"-">> \o IntStr(L + 10))

\* C24: when applyKAnonymityEnhanced generalizes a record, each
\* quasi-identifier column holding a number v becomes the label 'L-U' with
\* L = floor(v / 10) * 10 and U = L + 10, each quasi-identifier column holding
\* anything else becomes '*', and every other column keeps its input value.
C24_GeneralizationLabels ==
  (KAnonRunning \/ KAnonDone) =>
    \A c \in 1..Len(decisions) :
      decisions[c].what = "generalize" =>
        \A q \in 1..Len(decisions[c].rows) :
          LET i == decisions[c].rows[q] IN
            /\ Cardinality(CopiesOf(i)) = 1
            /\ \A p \in CopiesOf(i), col \in Columns :
                 processedData[p][col] =
                   IF ~IsQuasiIdentifier(col) THEN data[i][col]
                   ELSE IF data[i][col].t = "number" THEN RangeLabel(data[i][col].n)
                   ELSE Str(<<"*">>)

C24_Witness ==
  /\ KAnonDone
  /\ quasiIdentifiers = <<"age", "zip">>
  /\ \E p \in 1..Len(result.processedData) :
       /\ result.processedData[p].age = Str(<<"2", "0", "-", "3", "0">>)
       /\ result.processedData[p].zip = Str(<<"*">>)
       /\ result.processedData[p].disease = Str(<<"y">>)
  /\ \E p \in 1..Len(result.processedData) :
       result.processedData[p].age = Str(<<"0", "-", "1", "0">>)

(***************************************************************************)
(* The partitions of the operations compared (checked under SpecAnonymize). *)
(***************************************************************************)
\* the two lists of classes put the same records together
SamePartition(classes1, classes2) ==
  \A i1, i2 \in 1..Len(data) :
    SameClass(classes1, i1, i2) <=> SameClass(classes2, i1, i2)

\* C25: for every table and quasi-identifier list, applyKAnonymityEnhanced,
\* applyLDiversityDistinct, applyTCloseness and calculateRiskMetrics group the
\* records into the same partition, also when a quasi-identifier value is 0,
\* empty or missing.
C25_SamePartitionEverywhere ==
  LET ofRiskMetrics == RiskClasses(data, quasiIdentifiers) IN
    /\ KAnonDone => SamePartition(groups, ofRiskMetrics)
    /\ LDiversityDone => SamePartition(result.classes, ofRiskMetrics)
    /\ TClosenessDone => SamePartition(result.classes, ofRiskMetrics)

(***************************************************************************)
(* Properties of addLaplaceNoise (checked under SpecNoise).                  *)
(***************************************************************************)
NoiseDone == result.op = "addLaplaceNoise"

\* column c is one of the columns listed in the call
Listed(c) == \E j \in 1..Len(result.columns) : result.columns[j] = c

\* C26: addLaplaceNoise returns one output record per input record in the same
\* order, changes only values that are numbers in the listed columns, leaves
\* every other value and the set of columns of each record unchanged,
\* suppresses nothing, and does not modify the input records.
C26_NoiseOnlyOnListedNumbers ==
  [][ /\ data' = data
      /\ result'.op = "addLaplaceNoise" =>
           /\ Len(result'.processedData) = Len(data)
           /\ \A i \in 1..Len(data) :
                /\ ColumnNames(result'.processedData[i]) = ColumnNames(data[i])
                /\ \A c \in Columns :
                     IF Listed(c)' /\ data[i][c].t = "number"
                     THEN result'.processedData[i][c].t = "number"
                     ELSE result'.processedData[i][c] = data[i][c] ]_vars

C26_Witness ==
  /\ NoiseDone
  /\ Len(data) = MaxRows
  /\ result.columns = <<"zip", "disease">>
  /\ \E i \in 1..Len(data) :
       /\ data[i].disease.t = "number"
       /\ result.processedData[i].disease # data[i].disease
       /\ result.processedData[i].age = data[i].age
       /\ data[i].age.t = "number"
  /\ \E i \in 1..Len(data) : data[i].disease.t = "undefined"

(***************************************************************************)
(* applyKAnonymityEnhanced on reordered tables (checked under SpecKAnon).    *)
(***************************************************************************)
\* the reorderings of n records
Permutations(n) ==
  { f \in [1..n -> 1..n] : \A i, j \in 1..n : f[i] = f[j] => i = j }

\* the table d with its records in the order f
Permuted(d, f) == [i \in 1..Len(d) |-> d[f[i]]]

\* how many times the record r occurs in the table out
Occurrences(out, r) == Cardinality({ p \in 1..Len(out) : out[p] = r })

\* the tables out1 and out2 hold the same records as multisets
SameRecords(out1, out2) ==
  /\ Len(out1) = Len(out2)
  /\ \A p \in 1..Len(out1) : Occurrences(out1, out1[p]) = Occurrences(out2, out1[p])

\* C27: the result of applyKAnonymityEnhanced does not depend on the order of
\* the input records: on every permutation of the table, with the same
\* quasi-identifiers, k and suppressionLimit, recordsSuppressed is the same and
\* the output holds the same records as multisets.
C27_OrderIndependent ==
  KAnonDone =>
    \A f \in Permutations(Len(data)) :
      LET other == KAnonAlone(Permuted(data, f), quasiIdentifiers, result.kValue,
                              result.suppressionLimit)
      IN /\ other.recordsSuppressed = result.recordsSuppressed
         /\ SameRecords(other.processedData, result.processedData)

(***************************************************************************)
(* Properties of POST /api/privacy/k-anonymity (checked under SpecRoute).    *)
(***************************************************************************)
\* the handler has answered a request whose dataset exists
Answered == result.op = "applyKAnonymityEnhanced" /\ response # NoResponse

\* C28: a POST /api/privacy/k-anonymity request for a dataset that exists,
\* with valid parameters, stores exactly one privacy operation whose
\* parameters carry the equivalenceClasses, avgGroupSize, minGroupSize,
\* maxGroupSize and privacyRisk computed by applyKAnonymityEnhanced, and
\* answers with that operation, not with 500 'Failed to apply k-anonymity'.
C28_KAnonymityRouteStoresOperation ==
  Answered =>
    /\ response.status # 500
    /\ Len(operations) = 1
    /\ operations[1].parameters.equivalenceClasses = result.equivalenceClasses
    /\ operations[1].parameters.avgGroupSize = result.avgGroupSize
    /\ operations[1].parameters.minGroupSize = result.minGroupSize
    /\ operations[1].parameters.maxGroupSize = result.maxGroupSize
    /\ operations[1].parameters.privacyRisk = result.privacyRisk
    /\ response.body = operations[1]

(***************************************************************************)
(* Conservation of records in applyKAnonymityEnhanced and applyTCloseness    *)
(* (checked under SpecAnonymize).                                            *)
(***************************************************************************)
\* the records of the classes applyKAnonymityEnhanced has processed so far
ProcessedSoFar == SumInt([c \in 1..Len(decisions) |-> Len(decisions[c].rows)])

\* which classes of the applyTCloseness result were within the threshold
WithinThreshold ==
  [j \in 1..Len(result.classes) |-> NumLe(result.distances[j], Ratio(result.tValue[1], result.tValue[2]))]

\* the records of the first n classes of the result
SizeOfFirst(n) == SumInt([j \in 1..n |-> Len(result.classes[j].records)])

\* C29: in applyKAnonymityEnhanced and applyTCloseness, after any prefix of
\* the classes and in the result, the records emitted so far plus the records
\* suppressed so far are the records of the classes processed so far; at the
\* end the length of processedData plus recordsSuppressed is the table size,
\* and every class is wholly in the output or wholly absent from it.
C29_RecordsConserved ==
  /\ (KAnonRunning \/ KAnonDone) =>
       /\ Len(processedData) + currentSuppressed = ProcessedSoFar
       /\ \A c \in 1..Len(decisions) :
            LET rows == decisions[c].rows IN
              \/ \A q \in 1..Len(rows) : Cardinality(CopiesOf(rows[q])) = 1
              \/ \A q \in 1..Len(rows) : CopiesOf(rows[q]) = {}
  /\ KAnonDone =>
       /\ ProcessedSoFar = Len(data)
       /\ Len(result.processedData) + result.recordsSuppressed = Len(data)
  /\ TClosenessDone =>
       /\ \A n \in 0..Len(result.classes) :
            Len(KeptRows(result.classes, WithinThreshold, n))
              + SuppressedCount(result.classes, WithinThreshold, n) = SizeOfFirst(n)
       /\ SizeOfFirst(Len(result.classes)) = Len(data)
       /\ Len(result.processedData) + result.recordsSuppressed = Len(data)
       /\ \A j \in 1..Len(result.classes) : KeptInFull(j) \/ DroppedInFull(j)

C29_Witness ==
  /\ KAnonRunning
  /\ Len(decisions) = 2
  /\ nextGroup <= Len(groups)
  /\ decisions[1].what = "suppress"
  /\ decisions[2].what = "generalize"
  /\ Len(processedData) = 1
  /\ currentSuppressed = 1

(***************************************************************************)
(* The prosecutor risk as a count of classes (checked under SpecRisk).       *)
(***************************************************************************)
\* C30: for every non-empty table the prosecutorRisk of calculateRiskMetrics
\* is the number of equivalence classes divided by the number of records,
\* whatever the sizes of the classes, and the riskScore attached to each class
\* is 1 / size.
C30_ProsecutorRiskIsClassesPerRecord ==
  (RiskDone /\ Len(data) > 0) =>
    /\ NumEq(result.prosecutorRisk, Ratio(Len(result.equivalenceClasses), Len(data)))
    /\ \A j \in 1..Len(result.equivalenceClasses) :
         NumEq(result.equivalenceClasses[j].riskScore,
               Ratio(1, Len(result.equivalenceClasses[j].records)))

C30_Witness ==
  /\ RiskDone
  /\ Len(data) = MaxRows
  /\ Len(result.equivalenceClasses) = 2
  /\ \E j \in 1..2 : Len(result.equivalenceClasses[j].records) = MaxRows - 1
  /\ NumEq(result.prosecutorRisk, Ratio(2, MaxRows))

====
